---- MODULE Spec2Model ----
(***************************************************************************)
(* gitlab-todo: a poller that collects the merge requests related to one   *)
(* user from four GitLab queries, fetches the approvals of each, sorts     *)
(* them by priority and prints a table.  Model of src/main.rs.             *)
(*                                                                         *)
(* Strings are tuples of characters.  A character is a one-letter string,  *)
(* except WideChar, which stands for one character of two UTF-8 bytes.     *)
(* Times are whole hours.                                                  *)
(***************************************************************************)
EXTENDS Integers, Sequences, FiniteSets, TLC

VARIABLES
  pc,           \* position of the process in main / print_all / get_related_mrs
  pushes,       \* get_related_mrs: the Vec get_recent_pushes returned
  next_push,    \* get_related_mrs: index of the push filter_map visits next
  lookups,      \* get_related_mrs: maps returned by the branch lookups so far
  recent_mrs,   \* get_related_mrs: recent_mrs
  to_review,    \* get_related_mrs: to_review
  assigned,     \* get_related_mrs: assigned
  authored,     \* get_related_mrs: authored
  related,      \* print_all: the HashMap all_mrs
  values,       \* print_all: entries of all_mrs that into_values has not yielded
  all_mrs,      \* print_all: the Vec all_mrs of (MergeRequest, ApprovalInfo)
  term_size,    \* print_all: what crossterm::terminal::size() answered
  ref_width,    \* print_all: ref_width
  title_width,  \* print_all: title_width
  row,          \* print_all: index of the next pair the for loop prints
  log,          \* what the process did in this tick, in order
  fn_args,      \* arguments of the function under check (function specifications)
  fn_ret        \* its result, Pending before the call

tickData == <<pushes, next_push, lookups, recent_mrs, to_review, assigned, authored,
              related, values, all_mrs, term_size, ref_width, title_width, row, log>>
tickVars == <<pc, tickData>>
fnVars == <<fn_args, fn_ret>>
vars == <<tickVars, fnVars>>

-----------------------------------------------------------------------------
(* Bounds *)

MaxPushes == 2        \* recent pushes in one answer
MaxAssignees == 2     \* assignees of a merge request (function specifications)
MaxApprovalsLeft == 2 \* approvals_left (function specifications)
MaxAgeDays == 16      \* oldest updated_at, in days before now
MaxSkewHours == 24    \* newest updated_at, in hours after now
MaxWidth == 6         \* column width given to cell
MaxBody == 4          \* characters of a cell body

-----------------------------------------------------------------------------
(* Generic helpers *)

Range(s) == {s[i] : i \in 1..Len(s)}

SeqsUpTo(S, n) == UNION {[1..k -> S] : k \in 0..n}

RECURSIVE SetMax(_)
SetMax(S) ==
  LET x == CHOOSE y \in S : TRUE
  IN  IF S = {x} THEN x
      ELSE LET m == SetMax(S \ {x}) IN IF x > m THEN x ELSE m

EmptyMap == <<>>

-----------------------------------------------------------------------------
(* Strings *)

WideChar == "U+00E9"

Utf8Len(c) == IF c = WideChar THEN 2 ELSE 1

\* str::len: the length in bytes
RECURSIVE StrLen(_)
StrLen(s) == IF s = <<>> THEN 0 ELSE Utf8Len(Head(s)) + StrLen(Tail(s))

\* chars().take(n).collect()
Take(s, n) == SubSeq(s, 1, IF n < Len(s) THEN n ELSE Len(s))

\* " ".repeat(n)
Spaces(n) == [i \in 1..n |-> " "]

Ellipsis == <<".", ".", ".">>

BotName == <<"n","o","m","a","d","i","c","-","m","a","r","g","e","b","o","t">>

-----------------------------------------------------------------------------
(* Records *)

Me == [id |-> 1, username |-> <<"m","e">>]
Bot == [id |-> 2, username |-> BotName]
Alice == [id |-> 3, username |-> <<"a","l","i","c","e">>]

Users == {Me, Bot, Alice}

Branches == {"main", "master", "dev"}

\* Utc::now(), in hours
NowHours == 1000

M1 == [id |-> 101, iid |-> 1, project_id |-> 10,
       title |-> <<"f","i","x">>, draft |-> FALSE, has_conflicts |-> TRUE,
       references |-> <<"a","!","1">>, target_branch |-> "main",
       updated_at |-> NowHours - 2,
       author |-> Me, assignees |-> <<Me>>, reviewers |-> <<>>]

\* M1 as a later query sees it, after a rebase
M1b == [M1 EXCEPT !.has_conflicts = FALSE, !.updated_at = NowHours - 1]

M2 == [id |-> 102, iid |-> 1, project_id |-> 20,
       title |-> <<"d","o","c","s",WideChar>>, draft |-> TRUE, has_conflicts |-> FALSE,
       references |-> <<"b","b","!","1">>, target_branch |-> "dev",
       updated_at |-> NowHours - 30,
       author |-> Alice, assignees |-> <<Bot>>, reviewers |-> <<Me>>]

M3 == [id |-> 103, iid |-> 2, project_id |-> 10,
       title |-> <<"w","i","p","2">>, draft |-> FALSE, has_conflicts |-> FALSE,
       references |-> <<"a","!","2">>, target_branch |-> "master",
       updated_at |-> NowHours - 20 * 24,
       author |-> Alice, assignees |-> <<>>, reviewers |-> <<Me, Alice>>]

Catalog == <<M1, M1b, M2, M3>>

\* The answers a merge request query can give: the subsequences of Catalog
MrLists ==
  { LET idx == {i \in 1..Len(Catalog) : i \in mask}
        nth(k) == CHOOSE i \in idx : Cardinality({j \in idx : j < i}) = k - 1
    IN  [k \in 1..Cardinality(idx) |-> Catalog[nth(k)]]
    : mask \in SUBSET (1..Len(Catalog)) }

NoRef == "none"

PushKinds == {[project_id |-> 10, push_data |-> [ref_ |-> "feat"]],
              [project_id |-> 20, push_data |-> [ref_ |-> "fix"]],
              [project_id |-> 20, push_data |-> [ref_ |-> NoRef]]}

PushLists == SeqsUpTo(PushKinds, MaxPushes)

ApprovalInfos == {[approvals_left |-> 0, approved_by |-> <<[user |-> Alice], [user |-> Me]>>],
                  [approvals_left |-> 1, approved_by |-> <<>>]}

\* crossterm::terminal::size(): Err, or the number of columns
NoSize == -1
TermSizes == {NoSize, 0, 36, 37, 38, 39, 41, 58, 59}

Pending == "pending"

-----------------------------------------------------------------------------
(* Pure functions of main.rs *)

\* usize arithmetic wraps modulo 2^64 when overflow checks are off.  TLC's
\* integers have 32 bits, so the modulus is 2^30: like 2^64 it exceeds the
\* length of every string of the model, which is all that take() reads.
UsizeModulus == 1073741824

WrappingSub(a, b) == (a - b) % UsizeModulus

assignee_width == 15

\* mrs.into_iter().map(|mr| (mr.id, mr)).collect(): a later entry replaces an
\* earlier one of the same id
ToMap(mrs) ==
  [k \in {mrs[i].id : i \in 1..Len(mrs)} |->
     mrs[CHOOSE i \in 1..Len(mrs) :
           mrs[i].id = k /\ \A j \in (i+1)..Len(mrs) : mrs[j].id # k]]

\* Chain, with the ids both maps hold thrown away
Chain_dropShared(a, b) ==
  [k \in (DOMAIN a \cup DOMAIN b) \ (DOMAIN a \cap DOMAIN b) |->
     IF k \in DOMAIN b THEN b[k] ELSE a[k]]

\* a.into_iter().chain(b).collect(), on maps: b's entry replaces a's
Chain(a, b) ==
  [k \in DOMAIN a \cup DOMAIN b |-> IF k \in DOMAIN b THEN b[k] ELSE a[k]]

\* into_iter().flat_map(|mrs| mrs.into_iter()).collect()
RECURSIVE FlatCollect(_)
FlatCollect(maps) ==
  IF maps = <<>> THEN EmptyMap
  ELSE Chain(FlatCollect(SubSeq(maps, 1, Len(maps) - 1)), maps[Len(maps)])

\* TimeDelta::num_days: whole days, truncated towards zero
NumDays(hours) == IF hours >= 0 THEN hours \div 24 ELSE -((-hours) \div 24)

get_mrs_to_review(mrs, now) ==
  ToMap(SelectSeq(mrs, LAMBDA mr : NumDays(now - mr.updated_at) <= 14))

targets_main_branch(mr) == mr.target_branch \in {"master", "main"}

\* priority, with the reviewer rule skipped once the author rule has applied
priority_elseif(mr, approval_info, user) ==
  LET approved == \E i \in 1..Len(approval_info.approved_by) :
                     approval_info.approved_by[i].user.id = user.id
      p0 == 0
      p1 == IF (\E i \in 1..Len(mr.assignees) : mr.assignees[i].id = user.id) /\ ~mr.draft
            THEN p0 + 5 ELSE p0
      p2 == IF targets_main_branch(mr) THEN p1 + 2 ELSE p1
      p4 == IF mr.author.id = user.id THEN p2 + 1
            ELSE IF \E i \in 1..Len(mr.reviewers) : mr.reviewers[i].id = user.id
            THEN p2 + 1 ELSE p2
      p5 == IF mr.has_conflicts THEN p4 - 1 ELSE p4
      p6 == IF approved THEN p5 - 1 ELSE p5
      p7 == IF approval_info.approvals_left < 1 THEN p6 - 2 ELSE p6
      p8 == IF \A i \in 1..Len(mr.assignees) : mr.assignees[i].username = BotName
            THEN p7 - 5 ELSE p7
  IN  p8

priority(mr, approval_info, user) ==
  LET approved == \E i \in 1..Len(approval_info.approved_by) :
                     approval_info.approved_by[i].user.id = user.id
      p0 == 0
      p1 == IF (\E i \in 1..Len(mr.assignees) : mr.assignees[i].id = user.id) /\ ~mr.draft
            THEN p0 + 5 ELSE p0
      p2 == IF targets_main_branch(mr) THEN p1 + 2 ELSE p1
      p3 == IF mr.author.id = user.id THEN p2 + 1 ELSE p2
      p4 == IF \E i \in 1..Len(mr.reviewers) : mr.reviewers[i].id = user.id
            THEN p3 + 1 ELSE p3
      p5 == IF mr.has_conflicts THEN p4 - 1 ELSE p4
      p6 == IF approved THEN p5 - 1 ELSE p5
      p7 == IF approval_info.approvals_left < 1 THEN p6 - 2 ELSE p6
      p8 == IF \A i \in 1..Len(mr.assignees) : mr.assignees[i].username = BotName
            THEN p7 - 5 ELSE p7
  IN  p8

\* cell: the results the build can give.  width - 3 underflows when a body
\* longer than width meets a width below 3: a panic with overflow checks
\* (debug builds), a wrapped count without them (release builds).
cell(width, body) ==
  LET len == StrLen(body)
  IN  IF len > width
      THEN IF width >= 3
           THEN {[panic |-> FALSE, str |-> Take(body, width - 3) \o Ellipsis]}
           ELSE {[panic |-> TRUE, str |-> <<>>],
                 [panic |-> FALSE, str |-> Take(body, WrappingSub(width, 3)) \o Ellipsis]}
      ELSE {[panic |-> FALSE, str |-> body \o Spaces(width - len)]}

------------------------------------------------------------------------

-----------------------------------------------------------------------------
(* The process: main, print_all, get_related_mrs *)

\* The user main looked up
Viewer == Me

Api(call, ok) == [kind |-> "api", call |-> call, ok |-> ok]

\* GET projects/{project_id}/merge_requests?source_branch={branch}
BranchRequest(project_id, branch, ok) ==
  [kind |-> "api", call |-> "get_by_branch", project_id |-> project_id,
   branch |-> branch, ok |-> ok]

\* ApprovalRequest, addressed by the global id in place of the iid
ApprovalRequest_byId(mr, ok, info) ==
  [kind |-> "api", call |-> "approvals", project_id |-> mr.project_id,
   iid |-> mr.id, ok |-> ok, info |-> info]

\* GET projects/{mr.project_id}/merge_requests/{mr.iid}/approvals
ApprovalRequest(mr, ok, info) ==
  [kind |-> "api", call |-> "approvals", project_id |-> mr.project_id,
   iid |-> mr.iid, ok |-> ok, info |-> info]

\* HasBranch, with a missing ref taken for a branch name
HasBranch_always(recent_push) == TRUE

\* Option::as_ref()? in the filter_map closure: whether the push names a branch
HasBranch(recent_push) == recent_push.push_data.ref_ # NoRef

\* Before, without reverse()
Before_noReverse(lhs, rhs) ==
  priority(lhs[1], lhs[2], Me) <= priority(rhs[1], rhs[2], Me)

\* all_mrs.sort_by(|lhs, rhs| priority(lhs).cmp(&priority(rhs)).reverse()):
\* a stable sort, here by insertion
Before(lhs, rhs) ==
  priority(lhs[1], lhs[2], Viewer) >= priority(rhs[1], rhs[2], Viewer)

RECURSIVE sort_by(_)
sort_by(pairs) ==
  IF pairs = <<>> THEN <<>>
  ELSE LET n == Len(pairs)
           init == sort_by(SubSeq(pairs, 1, n - 1))
           x == pairs[n]
           k == Cardinality({i \in 1..(n - 1) : Before(init[i], x)})
       IN  SubSeq(init, 1, k) \o <<x>> \o SubSeq(init, k + 1, n - 1)

\* TermWidth, without the default of 80 columns
TermWidth_noDefault(size) == IF size = NoSize THEN 0 ELSE size

\* size().map(|(w, _)| w as usize).unwrap_or(80)
TermWidth(size) == IF size = NoSize THEN 80 ELSE size

RefWidth(pairs) ==
  IF pairs = <<>> THEN 25
  ELSE SetMax({StrLen(pairs[i][1].references) : i \in 1..Len(pairs)})

SaturatingSub(a, b) == IF a > b THEN a - b ELSE 0

TitleWidth(size, pairs) ==
  LET dynamic_width ==
        SaturatingSub(TermWidth(size), RefWidth(pairs) + assignee_width * 2 + 3)
  IN  IF dynamic_width > 0 THEN dynamic_width
      ELSE IF pairs = <<>> THEN 40
      ELSE SetMax({StrLen(pairs[i][1].title) : i \in 1..Len(pairs)})

TitleColor(mr, approval_info) ==
  LET approved == \E i \in 1..Len(approval_info.approved_by) :
                     approval_info.approved_by[i].user.id = Viewer.id
  IN  IF (\E i \in 1..Len(mr.assignees) : mr.assignees[i].id = Viewer.id) /\ ~mr.draft
      THEN IF targets_main_branch(mr) THEN "Red" ELSE "DarkYellow"
      ELSE IF approval_info.approvals_left < 1 \/ approved THEN "Green"
      ELSE IF mr.draft THEN "Grey"
      ELSE "White"

\* mr.assignees.iter().map(|a| format!("{} ", a.username)).collect::<String>()
RECURSIVE AssigneeNames(_)
AssigneeNames(users) ==
  IF users = <<>> THEN <<>>
  ELSE Head(users).username \o <<" ">> \o AssigneeNames(Tail(users))

NoLocals ==
  /\ pushes = <<>> /\ next_push = 0 /\ lookups = <<>>
  /\ recent_mrs = EmptyMap /\ to_review = EmptyMap
  /\ assigned = EmptyMap /\ authored = EmptyMap
  /\ related = EmptyMap /\ values = {} /\ all_mrs = <<>>
  /\ term_size = NoSize /\ ref_width = 0 /\ title_width = 0 /\ row = 0
  /\ log = <<>>

Init ==
  /\ pc = "User::get"
  /\ NoLocals
  /\ fn_args = <<>> /\ fn_ret = Pending

\* main: User::get(&client, user_name)?
GetUser ==
  /\ pc = "User::get"
  /\ \E ok \in BOOLEAN : pc' = IF ok THEN "get_recent_pushes" ELSE "exit"
  /\ UNCHANGED <<tickData, fnVars>>

\* get_related_mrs: self.get_recent_pushes(client)?
GetRecentPushes ==
  /\ pc = "get_recent_pushes"
  /\ \/ /\ log' = Append(log, Api("get_recent_pushes", FALSE))
        /\ pc' = "exit"
        /\ UNCHANGED <<pushes, next_push>>
     \/ \E answer \in PushLists :
          /\ log' = Append(log, Api("get_recent_pushes", TRUE))
          /\ pushes' = answer
          /\ next_push' = 1
          /\ pc' = "get_by_branch"
  /\ UNCHANGED <<lookups, recent_mrs, to_review, assigned, authored, related,
                 values, all_mrs, term_size, ref_width, title_width, row, fnVars>>

\* filter_map closure on a push without a branch: None, nothing is asked
SkipPush ==
  /\ pc = "get_by_branch"
  /\ next_push <= Len(pushes)
  /\ ~HasBranch(pushes[next_push])
  /\ next_push' = next_push + 1
  /\ UNCHANGED <<pc, pushes, lookups, recent_mrs, to_review, assigned, authored, related,
                 values, all_mrs, term_size, ref_width, title_width, row, log, fnVars>>

\* GetByBranch, with a failed lookup dropped and the next push visited
GetByBranch_skipErr ==
  /\ pc = "get_by_branch"
  /\ next_push <= Len(pushes)
  /\ HasBranch(pushes[next_push])
  /\ LET recent_push == pushes[next_push]
         project_id == recent_push.project_id
         branch == recent_push.push_data.ref_
     IN  \/ /\ log' = Append(log, BranchRequest(project_id, branch, FALSE))
            /\ next_push' = next_push + 1
            /\ UNCHANGED <<pc, lookups>>
         \/ \E answer \in MrLists :
              /\ log' = Append(log, BranchRequest(project_id, branch, TRUE))
              /\ lookups' = Append(lookups, ToMap(answer))
              /\ next_push' = next_push + 1
              /\ pc' = "get_by_branch"
  /\ UNCHANGED <<pushes, recent_mrs, to_review, assigned, authored, related,
                 values, all_mrs, term_size, ref_width, title_width, row, fnVars>>

\* filter_map closure on a push with a branch: MergeRequest::get_by_branch;
\* collect::<Result<Vec<_>>>()? stops at the first Err
GetByBranch ==
  /\ pc = "get_by_branch"
  /\ next_push <= Len(pushes)
  /\ HasBranch(pushes[next_push])
  /\ LET recent_push == pushes[next_push]
         project_id == recent_push.project_id
         branch == recent_push.push_data.ref_
     IN  \/ /\ log' = Append(log, BranchRequest(project_id, branch, FALSE))
            /\ pc' = "exit"
            /\ UNCHANGED <<next_push, lookups>>
         \/ \E answer \in MrLists :
              /\ log' = Append(log, BranchRequest(project_id, branch, TRUE))
              /\ lookups' = Append(lookups, ToMap(answer))
              /\ next_push' = next_push + 1
              /\ pc' = "get_by_branch"
  /\ UNCHANGED <<pushes, recent_mrs, to_review, assigned, authored, related,
                 values, all_mrs, term_size, ref_width, title_width, row, fnVars>>

\* the pushes are exhausted: flat_map and collect into recent_mrs; the
\* statement's temporaries are dropped
CollectRecent ==
  /\ pc = "get_by_branch"
  /\ next_push > Len(pushes)
  /\ recent_mrs' = FlatCollect(lookups)
  /\ pushes' = <<>> /\ next_push' = 0 /\ lookups' = <<>>
  /\ pc' = "get_mrs_to_review"
  /\ UNCHANGED <<to_review, assigned, authored, related,
                 values, all_mrs, term_size, ref_width, title_width, row, log, fnVars>>

\* self.get_mrs_to_review(client)?
GetMrsToReview ==
  /\ pc = "get_mrs_to_review"
  /\ \/ /\ log' = Append(log, Api("get_mrs_to_review", FALSE))
        /\ pc' = "exit"
        /\ UNCHANGED to_review
     \/ \E answer \in MrLists :
          /\ log' = Append(log, Api("get_mrs_to_review", TRUE))
          /\ to_review' = get_mrs_to_review(answer, NowHours)
          /\ pc' = "get_assigned_mrs"
  /\ UNCHANGED <<pushes, next_push, lookups, recent_mrs, assigned, authored, related,
                 values, all_mrs, term_size, ref_width, title_width, row, fnVars>>

\* self.get_assigned_mrs(client)?
GetAssignedMrs ==
  /\ pc = "get_assigned_mrs"
  /\ \/ /\ log' = Append(log, Api("get_assigned_mrs", FALSE))
        /\ pc' = "exit"
        /\ UNCHANGED assigned
     \/ \E answer \in MrLists :
          /\ log' = Append(log, Api("get_assigned_mrs", TRUE))
          /\ assigned' = ToMap(answer)
          /\ pc' = "get_authored_mrs"
  /\ UNCHANGED <<pushes, next_push, lookups, recent_mrs, to_review, authored, related,
                 values, all_mrs, term_size, ref_width, title_width, row, fnVars>>

\* self.get_authored_mrs(client)?
GetAuthoredMrs ==
  /\ pc = "get_authored_mrs"
  /\ \/ /\ log' = Append(log, Api("get_authored_mrs", FALSE))
        /\ pc' = "exit"
        /\ UNCHANGED authored
     \/ \E answer \in MrLists :
          /\ log' = Append(log, Api("get_authored_mrs", TRUE))
          /\ authored' = ToMap(answer)
          /\ pc' = "aggregate"
  /\ UNCHANGED <<pushes, next_push, lookups, recent_mrs, to_review, assigned, related,
                 values, all_mrs, term_size, ref_width, title_width, row, fnVars>>

\* recent_mrs.into_iter().chain(to_review).chain(assigned).chain(authored).collect()
Aggregate ==
  /\ pc = "aggregate"
  /\ related' = Chain(Chain(Chain(recent_mrs, to_review), assigned), authored)
  /\ pc' = "return_related"
  /\ UNCHANGED <<pushes, next_push, lookups, recent_mrs, to_review, assigned, authored,
                 values, all_mrs, term_size, ref_width, title_width, row, log, fnVars>>

\* Ok(all_mrs): get_related_mrs returns, its locals are gone; print_all starts
\* all_mrs.into_values()
ReturnRelated ==
  /\ pc = "return_related"
  /\ recent_mrs' = EmptyMap /\ to_review' = EmptyMap
  /\ assigned' = EmptyMap /\ authored' = EmptyMap
  /\ values' = {related[k] : k \in DOMAIN related}
  /\ pc' = "approvals"
  /\ UNCHANGED <<pushes, next_push, lookups, related, all_mrs, term_size, ref_width,
                 title_width, row, log, fnVars>>

\* the map closure on the next value of the HashMap, in the map's own order:
\* ApprovalInfo::get(client, &mr); collect::<Result<_>>()? stops at the first Err
ApprovalInfoGet ==
  /\ pc = "approvals"
  /\ \E mr \in values :
       \/ /\ log' = Append(log, ApprovalRequest(mr, FALSE, <<>>))
          /\ pc' = "exit"
          /\ UNCHANGED <<values, all_mrs>>
       \/ \E approval_info \in ApprovalInfos :
            /\ log' = Append(log, ApprovalRequest(mr, TRUE, approval_info))
            /\ all_mrs' = Append(all_mrs, <<mr, approval_info>>)
            /\ values' = values \ {mr}
            /\ pc' = "approvals"
  /\ UNCHANGED <<pushes, next_push, lookups, recent_mrs, to_review, assigned, authored, related,
                 term_size, ref_width, title_width, row, fnVars>>

\* sort_by, the widths, and execute!(target, Clear(ClearType::All))?
SortAndClear ==
  /\ pc = "approvals"
  /\ values = {}
  /\ all_mrs' = sort_by(all_mrs)
  /\ \E size \in TermSizes :
       /\ term_size' = size
       /\ ref_width' = RefWidth(all_mrs')
       /\ title_width' = TitleWidth(size, all_mrs')
  /\ \/ /\ log' = log \o <<[kind |-> "sort"], [kind |-> "clear"]>>
        /\ row' = 1
        /\ pc' = "print_row"
     \/ /\ log' = log \o <<[kind |-> "sort"], [kind |-> "io_error"]>>
        /\ pc' = "exit"
        /\ UNCHANGED row
  /\ UNCHANGED <<pushes, next_push, lookups, recent_mrs, to_review, assigned, authored, related,
                 values, fnVars>>

\* one turn of the for loop: the four cells, execute!(...)? and writeln!(...)?
PrintRow ==
  /\ pc = "print_row"
  /\ row <= Len(all_mrs)
  /\ LET mr == all_mrs[row][1]
         approval_info == all_mrs[row][2]
     IN  \E reference \in cell(ref_width, mr.references),
            title \in cell(title_width, mr.title),
            author \in cell(assignee_width, mr.author.username),
            assignees \in cell(assignee_width, AssigneeNames(mr.assignees)) :
           IF reference.panic \/ title.panic \/ author.panic \/ assignees.panic
           THEN /\ log' = Append(log, [kind |-> "panic"])
                /\ pc' = "exit"
                /\ UNCHANGED row
           ELSE \/ /\ log' = Append(log, [kind |-> "row", mr |-> mr,
                                          approval_info |-> approval_info,
                                          reference |-> reference.str,
                                          title |-> title.str,
                                          color |-> TitleColor(mr, approval_info),
                                          author |-> author.str,
                                          assignees |-> assignees.str])
                   /\ row' = row + 1
                   /\ pc' = "print_row"
                \/ \* execute!(...)? fails
                   /\ log' = Append(log, [kind |-> "io_error"])
                   /\ pc' = "exit"
                   /\ UNCHANGED row
                \/ \* the cells are written, writeln!(target)? fails
                   /\ log' = log \o <<[kind |-> "row", mr |-> mr,
                                        approval_info |-> approval_info,
                                        reference |-> reference.str,
                                        title |-> title.str,
                                        color |-> TitleColor(mr, approval_info),
                                        author |-> author.str,
                                        assignees |-> assignees.str],
                                       [kind |-> "io_error"]>>
                   /\ pc' = "exit"
                   /\ UNCHANGED row
  /\ UNCHANGED <<pushes, next_push, lookups, recent_mrs, to_review, assigned, authored, related,
                 values, all_mrs, term_size, ref_width, title_width, fnVars>>

\* the for loop is over: Ok(())
PrintDone ==
  /\ pc = "print_row"
  /\ row > Len(all_mrs)
  /\ pc' = "sleep"
  /\ UNCHANGED <<tickData, fnVars>>

\* main: sleep(Duration::from_secs(30)), then the next turn of the loop;
\* nothing of the tick is kept
Sleep ==
  /\ pc = "sleep"
  /\ pc' = "get_recent_pushes"
  /\ pushes' = <<>> /\ next_push' = 0 /\ lookups' = <<>>
  /\ recent_mrs' = EmptyMap /\ to_review' = EmptyMap
  /\ assigned' = EmptyMap /\ authored' = EmptyMap
  /\ related' = EmptyMap /\ values' = {} /\ all_mrs' = <<>>
  /\ term_size' = NoSize /\ ref_width' = 0 /\ title_width' = 0 /\ row' = 0
  /\ log' = <<>>
  /\ UNCHANGED fnVars

Next ==
  \/ GetUser
  \/ GetRecentPushes
  \/ SkipPush
  \/ GetByBranch
  \/ CollectRecent
  \/ GetMrsToReview
  \/ GetAssignedMrs
  \/ GetAuthoredMrs
  \/ Aggregate
  \/ ReturnRelated
  \/ ApprovalInfoGet
  \/ SortAndClear
  \/ PrintRow
  \/ PrintDone
  \/ Sleep

Spec == Init /\ [][Next]_vars

-----
(* Function specifications: one call of a pure function on drawn arguments *)

TickIdle ==
  /\ pc = "fn"
  /\ NoLocals

ReviewerLists == {<<>>, <<Me>>, <<Alice>>, <<Alice, Me>>}
ApproverLists == {<<>>, <<[user |-> Me]>>, <<[user |-> Alice], [user |-> Me]>>}

MrShapes ==
  {[M1 EXCEPT !.assignees = a, !.reviewers = r, !.author = u, !.draft = d,
              !.has_conflicts = c, !.target_branch = b] :
     a \in SeqsUpTo(Users, MaxAssignees), r \in ReviewerLists, u \in Users,
     d \in BOOLEAN, c \in BOOLEAN, b \in Branches}

InfoShapes == [approvals_left : 0..MaxApprovalsLeft, approved_by : ApproverLists]

InitPriority ==
  /\ TickIdle
  /\ fn_args \in [mr : MrShapes, approval_info : InfoShapes, user : Users]
  /\ fn_ret = Pending

CallPriority ==
  /\ pc = "fn"
  /\ pc' = "returned"
  /\ fn_ret' = priority(fn_args.mr, fn_args.approval_info, fn_args.user)
  /\ UNCHANGED <<tickData, fn_args>>

NextPriority == CallPriority

SpecPriority == InitPriority /\ [][NextPriority]_vars

CellChars == {"a", ".", WideChar}

InitCell ==
  /\ TickIdle
  /\ fn_args \in [width : 0..MaxWidth, body : SeqsUpTo(CellChars, MaxBody)]
  /\ fn_ret = Pending

CallCell ==
  /\ pc = "fn"
  /\ pc' = "returned"
  /\ \E out \in cell(fn_args.width, fn_args.body) : fn_ret' = out
  /\ UNCHANGED <<tickData, fn_args>>

NextCell == CallCell

SpecCell == InitCell /\ [][NextCell]_vars

\* updated_at from MaxAgeDays before now to MaxSkewHours after it
Times == (NowHours - 24 * MaxAgeDays)..(NowHours + MaxSkewHours)

InitReview ==
  /\ TickIdle
  /\ fn_args \in [now : {NowHours},
                  mrs : {<<[M2 EXCEPT !.updated_at = t]>> : t \in Times}
                        \cup {<<[M2 EXCEPT !.updated_at = t], [M3 EXCEPT !.updated_at = u]>> :
                                t \in Times, u \in {NowHours - 24 * 14, NowHours - 24 * 15}}]
  /\ fn_ret = Pending

CallReview ==
  /\ pc = "fn"
  /\ pc' = "returned"
  /\ fn_ret' = get_mrs_to_review(fn_args.mrs, fn_args.now)
  /\ UNCHANGED <<tickData, fn_args>>

NextReview == CallReview

SpecReview == InitReview /\ [][NextReview]_vars

-----------------------------------------------------------------------------
(* Properties *)

\* C1: the collection get_related_mrs builds holds exactly the ids of the four
\* source maps (branch-derived, reviewing, assigned, authored), and an id that
\* several sources returned is held once: under its id, as one entry.
C1_UnionOfSources ==
  /\ pc = "return_related" =>
       /\ DOMAIN related =
            DOMAIN recent_mrs \cup DOMAIN to_review \cup DOMAIN assigned \cup DOMAIN authored
       /\ \A k \in DOMAIN related :
            /\ related[k].id = k
            /\ \E src \in {recent_mrs, to_review, assigned, authored} :
                 k \in DOMAIN src /\ src[k] = related[k]
  /\ pc = "approvals" =>
       \A k \in DOMAIN related :
         Cardinality({m \in values \cup {all_mrs[i][1] : i \in 1..Len(all_mrs)} :
                        m.id = k}) = 1

\* C1 witness: three ids aggregated, id 101 returned by two sources in two
\* different representations
C1_Witness ==
  /\ pc = "return_related"
  /\ DOMAIN related = {101, 102, 103}
  /\ 101 \in DOMAIN recent_mrs /\ 101 \in DOMAIN authored
  /\ recent_mrs[101] # authored[101]
  /\ 103 \in DOMAIN assigned /\ 103 \notin DOMAIN authored

\* C2: priority returns the sum, from 0, of the deltas of the eight rules of
\* the scoring table that apply, each rule decided on its own; the bot rule is
\* the table's "every assignee's username equals the bot account".  The
\* table's example (non-draft, targets main, viewer is assignee and author,
\* conflicts, 0 approvals left, no other rule applies) scores 5.
C2_PrioritySumOfRules ==
  pc = "returned" =>
    LET mr == fn_args.mr
        info == fn_args.approval_info
        viewer == fn_args.user.id
        Delta(applies, d) == IF applies THEN d ELSE 0
        isAssignee == viewer \in {u.id : u \in Range(mr.assignees)}
        isAuthor == viewer = mr.author.id
        isReviewer == viewer \in {u.id : u \in Range(mr.reviewers)}
        hasApproved == viewer \in {a.user.id : a \in Range(info.approved_by)}
        botOnly == {u.username : u \in Range(mr.assignees)} \subseteq {BotName}
    IN  /\ fn_ret = Delta(isAssignee /\ ~mr.draft, 5)
                    + Delta(mr.target_branch = "main" \/ mr.target_branch = "master", 2)
                    + Delta(isAuthor, 1)
                    + Delta(isReviewer, 1)
                    + Delta(mr.has_conflicts, -1)
                    + Delta(hasApproved, -1)
                    + Delta(info.approvals_left < 1, -2)
                    + Delta(botOnly, -5)
        /\ (/\ isAssignee /\ ~mr.draft /\ mr.target_branch = "main" /\ isAuthor
            /\ mr.has_conflicts /\ info.approvals_left = 0
            /\ ~isReviewer /\ ~hasApproved /\ ~botOnly) => fn_ret = 5

\* C2 witness: the table's example has been scored
C2_Witness ==
  /\ pc = "returned"
  /\ fn_args.user = Me
  /\ fn_args.mr.assignees = <<Alice, Me>> /\ ~fn_args.mr.draft
  /\ fn_args.mr.target_branch = "main" /\ fn_args.mr.author = Me
  /\ fn_args.mr.reviewers = <<Alice>> /\ fn_args.mr.has_conflicts
  /\ fn_args.approval_info.approvals_left = 0
  /\ fn_args.approval_info.approved_by = <<>>
  /\ fn_ret = 5

\* C3: a failed API call of a tick is the last thing the process does: it is
\* the last event of the tick (no later call, clear or row) and the process
\* has exited, for good.
C3_ApiFailureIsLast ==
  /\ [](\A i \in 1..Len(log) :
          (log[i].kind = "api" /\ ~log[i].ok) => (i = Len(log) /\ pc = "exit"))
  /\ [][pc = "exit" => UNCHANGED vars]_vars

\* C3 witness: the second approval fetch failed after a first one succeeded
C3_Witness ==
  /\ pc = "exit"
  /\ Len(all_mrs) = 1
  /\ Cardinality(values) = 2
  /\ log[Len(log)].kind = "api" /\ log[Len(log)].call = "approvals"
  /\ ~log[Len(log)].ok
  /\ \A i \in 1..Len(log) : log[i].kind \notin {"clear", "row"}

\* C4: once a tick has reached scoring, the approvals of every merge request
\* of the aggregated collection were asked for exactly once, by project id
\* and iid, after every source query and before the sort; every pair that is
\* scored or printed holds the approval info that request returned.
C4_ApprovalsOncePerMr ==
  LET N == 1..Len(log)
      asked == {i \in N : log[i].kind = "api" /\ log[i].call = "approvals"}
      sources == {i \in N : log[i].kind = "api" /\ log[i].call # "approvals"}
      sorts == {i \in N : log[i].kind = "sort"}
      rows == {i \in N : log[i].kind = "row"}
      For(mr) == {i \in asked : log[i].project_id = mr.project_id /\ log[i].iid = mr.iid}
  IN  sorts # {} =>
        /\ \A k \in DOMAIN related : Cardinality(For(related[k])) = 1
        /\ Cardinality(asked) = Cardinality(DOMAIN related)
        /\ \E j \in sources : log[j].call = "get_authored_mrs"
        /\ \A i \in asked :
             /\ log[i].ok
             /\ \A j \in sources : j < i
             /\ \A j \in sorts : i < j
        /\ \A p \in 1..Len(all_mrs) :
             \E i \in For(all_mrs[p][1]) : log[i].info = all_mrs[p][2]
        /\ \A r \in rows :
             \E i \in For(log[r].mr) : i < r /\ log[i].info = log[r].approval_info

\* C4 witness: a tick over three merge requests, two of them with iid 1 in
\* different projects, has printed its rows
C4_Witness ==
  /\ pc = "sleep"
  /\ Len(all_mrs) = 3
  /\ Cardinality({i \in 1..Len(log) : log[i].kind = "row"}) = 3
  /\ \E p, q \in 1..3 : all_mrs[p][2] # all_mrs[q][2]

\* C6: the rows of a tick are printed in descending order of priority, and a
\* tick that ends well has printed exactly the pairs of the aggregated
\* collection, each once, each merge request with its own approval info.
C6_RowsDescending ==
  LET rows == SelectSeq(log, LAMBDA e : e.kind = "row")
      Score(r) == priority(r.mr, r.approval_info, Viewer)
      Fetched(mr) ==
        {log[i].info : i \in {j \in 1..Len(log) :
                                /\ log[j].kind = "api" /\ log[j].call = "approvals"
                                /\ log[j].project_id = mr.project_id
                                /\ log[j].iid = mr.iid}}
  IN  /\ \A i \in 1..(Len(rows) - 1) : Score(rows[i]) >= Score(rows[i + 1])
      /\ pc = "sleep" =>
           /\ Len(rows) = Cardinality(DOMAIN related)
           /\ \A k \in DOMAIN related :
                /\ Cardinality({i \in 1..Len(rows) : rows[i].mr.id = k}) = 1
                /\ \E i \in 1..Len(rows) :
                     rows[i].mr = related[k] /\ Fetched(related[k]) = {rows[i].approval_info}

\* C6 witness: three rows of three different priorities were printed, in an
\* order that is not the order the approvals were fetched in
C6_Witness ==
  LET rows == SelectSeq(log, LAMBDA e : e.kind = "row")
      asked == SelectSeq(log, LAMBDA e : e.kind = "api" /\ e.call = "approvals")
  IN  /\ pc = "sleep"
      /\ Len(rows) = 3
      /\ priority(rows[1].mr, rows[1].approval_info, Viewer)
           > priority(rows[2].mr, rows[2].approval_info, Viewer)
      /\ priority(rows[2].mr, rows[2].approval_info, Viewer)
           > priority(rows[3].mr, rows[3].approval_info, Viewer)
      /\ asked[1].iid = rows[3].mr.iid /\ asked[1].project_id = rows[3].mr.project_id

\* C8: a push without a branch reference causes no branch lookup, no entry in
\* the branch-derived source and no error: the lookups issued are, in order,
\* one per visited push that names a branch, for that push's project id and
\* branch, and the pushes after it are visited as usual.
C8_LookupPerBranchPush ==
  LET asked == SelectSeq(log, LAMBDA e : e.kind = "api" /\ e.call = "get_by_branch")
      failed == asked # <<>> /\ ~asked[Len(asked)].ok
      visited == SubSeq(pushes, 1, IF failed THEN next_push ELSE next_push - 1)
      named == SelectSeq(visited, LAMBDA push : push.push_data.ref_ # NoRef)
  IN  (pc = "get_by_branch" \/ failed) =>
        /\ Len(asked) = Len(named)
        /\ \A i \in 1..Len(asked) :
             /\ asked[i].project_id = named[i].project_id
             /\ asked[i].branch = named[i].push_data.ref_
             /\ asked[i].ok \/ (i = Len(asked) /\ pc = "exit")
        /\ Len(lookups) = Cardinality({i \in 1..Len(asked) : asked[i].ok})
        /\ pc = "get_by_branch" => \A i \in 1..Len(log) : log[i].kind = "api" /\ log[i].ok

\* C8 witness: the first push had no branch, the second had one and was looked up
C8_Witness ==
  /\ pc = "get_by_branch"
  /\ Len(pushes) = 2 /\ next_push = 3
  /\ pushes[1].push_data.ref_ = NoRef
  /\ pushes[2].push_data.ref_ = "feat"
  /\ Len(lookups) = 1 /\ lookups[1] # EmptyMap
  /\ Len(log) = 2

\* C10 as stated: the title column is what the terminal leaves after the
\* reference column, the two 15-wide columns and the 3 separators when the
\* terminal width is known and that is positive, and the longest title
\* otherwise, in particular when the terminal width is unknown.
C10_TitleWidthAsStated ==
  (pc \in {"print_row", "sleep"} /\ all_mrs # <<>>) =>
    LET rest == term_size - (ref_width + 15 + 15 + 3)
        longest == SetMax({StrLen(all_mrs[i][1].title) : i \in 1..Len(all_mrs)})
    IN  title_width = IF term_size # NoSize /\ rest > 0 THEN rest ELSE longest

\* C10 amended: an unknown terminal width counts as 80 columns; the title
\* column is what is left of the terminal width after the reference column,
\* the two 15-wide columns and the 3 separators when that is positive, and
\* otherwise the longest title of the tick (40 when the tick has no merge
\* request).
C10_TitleWidthAmended ==
  pc \in {"print_row", "sleep"} =>
    LET columns == IF term_size = NoSize THEN 80 ELSE term_size
        rest == columns - (ref_width + 15 + 15 + 3)
        titles == {StrLen(all_mrs[i][1].title) : i \in 1..Len(all_mrs)}
    IN  title_width = IF rest > 0 THEN rest
                      ELSE IF titles = {} THEN 40 ELSE SetMax(titles)

\* C10 witness: the terminal width was unknown and the title column took what
\* 80 columns leave; in another tick the terminal was too narrow
C10_Witness ==
  /\ pc = "print_row"
  /\ all_mrs # <<>>
  /\ term_size = NoSize
  /\ title_width = 80 - 33 - ref_width
  /\ title_width > SetMax({StrLen(all_mrs[i][1].title) : i \in 1..Len(all_mrs)})

\* C7 as stated: the -5 of the bot rule is subtracted exactly when the merge
\* request has at least one assignee and every assignee is nomadic-margebot:
\* the result is the sum of the other seven rules, less 5 in that case only.
C7_BotPenaltyAsStated ==
  pc = "returned" =>
    LET mr == fn_args.mr
        info == fn_args.approval_info
        viewer == fn_args.user.id
        Delta(applies, d) == IF applies THEN d ELSE 0
        others == Delta(viewer \in {u.id : u \in Range(mr.assignees)} /\ ~mr.draft, 5)
                  + Delta(mr.target_branch \in {"main", "master"}, 2)
                  + Delta(viewer = mr.author.id, 1)
                  + Delta(viewer \in {u.id : u \in Range(mr.reviewers)}, 1)
                  + Delta(mr.has_conflicts, -1)
                  + Delta(viewer \in {a.user.id : a \in Range(info.approved_by)}, -1)
                  + Delta(info.approvals_left < 1, -2)
        assignedToBotOnly == /\ Len(mr.assignees) >= 1
                             /\ \A i \in 1..Len(mr.assignees) :
                                  mr.assignees[i].username = BotName
    IN  fn_ret = others + Delta(assignedToBotOnly, -5)

\* C5 as stated: get_mrs_to_review keeps a merge request exactly when it was
\* updated at most 14 days (14 * 24 hours) before now.
C5_KeepsFourteenDays ==
  pc = "returned" =>
    \A i \in 1..Len(fn_args.mrs) :
      (fn_args.mrs[i].id \in DOMAIN fn_ret)
        <=> (fn_args.now - fn_args.mrs[i].updated_at <= 14 * 24)

\* C9 as stated: cell returns, without failing, a string of exactly width
\* characters: the first width - 3 characters and "..." for a body longer than
\* width, the body and trailing spaces otherwise.
C9_CellExactWidth ==
  pc = "returned" =>
    /\ ~fn_ret.panic
    /\ Len(fn_ret.str) = fn_args.width
    /\ fn_ret.str =
         IF Len(fn_args.body) > fn_args.width
         THEN SubSeq(fn_args.body, 1, fn_args.width - 3) \o Ellipsis
         ELSE fn_args.body \o Spaces(fn_args.width - Len(fn_args.body))

====
